---- MODULE Spec2Model ----
(***************************************************************************)
(* A model of grutopia.core.gym_env.Env, the gym environment that bridges  *)
(* one learning agent to the simulator runner.                             *)
(*                                                                         *)
(* The Env's own code (construction, _validate, reset, step and the        *)
(* accessors) is translated from src/grutopia/core/gym_env.py.  The        *)
(* SimulatorRunner, ValidatedConfig and the space utility are imported by  *)
(* that file but their code is not part of the sources at hand; they are   *)
(* modelled at their boundary, as nondeterministic collaborators.          *)
(***************************************************************************)
EXTENDS Integers, Sequences, FiniteSets, TLC

VARIABLES
    runtime,            \* self._runtime: [env_num, episodes, task_type_known]
    phase,              \* "new" (before __init__), "ready", "failed" (__init__ raised)
    raised,             \* the message of the exception __init__ raised, or NoError
    robot_name,         \* self._robot_name
    current_task_name,  \* self._current_task_name
    runner_built,       \* whether SimulatorRunner(...) has been constructed
    current_tasks,      \* runner.current_tasks: the names of the live tasks
    next_episode,       \* runner: index of the next episode to start
    app_closed,         \* runtime.simulation_app.close() has been called
    ret,                \* what the last call on the Env returned or raised
    log,                \* the runner invocations made by the last call on the Env
    last_desc,          \* history: name of the last non-null task_runtime the runner returned
    before              \* history: the state in which the last call on the Env began

vars == <<runtime, phase, raised, robot_name, current_task_name, runner_built,
          current_tasks, next_episode, app_closed, ret, log, last_desc, before>>

(***************************************************************************)
(* Bounds of the model.                                                    *)
(***************************************************************************)
MaxEpisodes == 3        \* episodes in a configuration: 0..MaxEpisodes
MaxRobots == 2          \* robots listed by one episode: 0..MaxRobots
MaxEnvNum == 2          \* env_num ranges over -NegEnvNums..MaxEnvNum
NegEnvNums == 1

(***************************************************************************)
(* Python values.                                                          *)
(***************************************************************************)
None == "<None>"                    \* Python's None, distinct from every name
EmptyDict == [k \in {} |-> k]       \* {}
NoError == ""

\* The names the robot configurations give their robots.
JetbotName == "jetbot"
AliengoName == "aliengo"
RobotNames == {JetbotName, AliengoName}

\* str() as an f-string applies it to a str or to None.
Fmt(x) == IF x = None THEN "None" ELSE x

RESET_INFO_TASK_RUNTIME == "task_runtime"

(***************************************************************************)
(* Configurations.                                                         *)
(***************************************************************************)
SeqsUpTo(S, n) == UNION {[1..k -> S] : k \in 0..n}

\* One episode is the list of its robots; a robot is modelled by its name.
EpisodeCfgs == SeqsUpTo(RobotNames, MaxRobots)

Runtimes == [env_num : (0 - NegEnvNums)..MaxEnvNum,
             episodes : SeqsUpTo(EpisodeCfgs, MaxEpisodes),
             task_type_known : BOOLEAN]

(***************************************************************************)
(* Env._validate                                                           *)
(***************************************************************************)
MultiEnvMsg(n) == "Only support single env now, but env num is " \o ToString(n)
MultiAgentMsg(n) == "Only support single agent now, but episode requires "
                        \o ToString(n) \o " agents"
HeteroMsg == "Only support single agent now, but episode requires multiple agents"
SpaceMsg == "unknown task type"

\* gym_env.py:33
EnvNumRejected(n) == n > 1

\* Faulty variant: only an episode without robots is rejected.
RobotCountRejectedEmpty(robots) == Len(robots) = 0
\* gym_env.py:39
RobotCountRejected(robots) == Len(robots) # 1

\* Faulty variant: the remembered name is overwritten by every episode.
NameUnsetAlways(rn) == TRUE
\* gym_env.py:41
NameUnset(rn) == rn = None

\* Faulty variant: the index suffix is left out.
RobotIdBare(rn) == Fmt(rn)
\* gym_env.py:47
RobotId(rn) == Fmt(rn) \o "_" \o ToString(0)

\* gym_env.py:38-47: the loop over the episodes from index i on, with the
\* local robot_name = rn; the result is what _validate raises and assigns.
RECURSIVE ValidateEpisodes(_, _, _)
ValidateEpisodes(eps, i, rn) ==
    IF i > Len(eps)
    THEN [msg |-> NoError, robot |-> RobotId(rn)]
    ELSE IF RobotCountRejected(eps[i])
    THEN [msg |-> MultiAgentMsg(Len(eps[i])), robot |-> None]
    ELSE IF NameUnset(rn)
    THEN ValidateEpisodes(eps, i + 1, eps[i][1])
    ELSE IF rn # eps[i][1]
    THEN [msg |-> HeteroMsg, robot |-> None]
    ELSE ValidateEpisodes(eps, i + 1, rn)

Validate(rt) ==
    IF EnvNumRejected(rt.env_num)
    THEN [msg |-> MultiEnvMsg(rt.env_num), robot |-> None]
    ELSE ValidateEpisodes(rt.episodes, 1, None)

(***************************************************************************)
(* Env.__init__                                                            *)
(***************************************************************************)
Init ==
    /\ runtime \in Runtimes
    /\ phase = "new"
    /\ raised = NoError
    /\ robot_name = None
    /\ current_task_name = None
    /\ runner_built = FALSE
    /\ current_tasks = {}
    /\ next_episode = 1
    /\ app_closed = FALSE
    /\ ret = [op |-> "none", status |-> "ok", val |-> << >>]
    /\ log = << >>
    /\ last_desc = None
    /\ before = [name |-> None, desc |-> None, robot |-> None, op |-> "none", term |-> FALSE]

\* The space lookups of lines 22-23 raise for an unknown task type.
ConstructSpaceFails ==
    /\ phase = "new"
    /\ ~runtime.task_type_known
    /\ phase' = "failed"
    /\ raised' = SpaceMsg
    /\ UNCHANGED <<runtime, robot_name, current_task_name, runner_built, current_tasks,
                   next_episode, app_closed, ret, log, last_desc, before>>

\* Faulty variant: the runner is created before _validate runs.
ConstructInvalidRunnerFirst ==
    /\ phase = "new"
    /\ runtime.task_type_known
    /\ Validate(runtime).msg # NoError
    /\ phase' = "failed"
    /\ raised' = Validate(runtime).msg
    /\ runner_built' = TRUE
    /\ UNCHANGED <<runtime, robot_name, current_task_name, current_tasks,
                   next_episode, app_closed, ret, log, last_desc, before>>
\* gym_env.py:17-24: __init__ up to the exception _validate raises
ConstructInvalid ==
    /\ phase = "new"
    /\ runtime.task_type_known
    /\ Validate(runtime).msg # NoError
    /\ phase' = "failed"
    /\ raised' = Validate(runtime).msg
    /\ UNCHANGED <<runtime, robot_name, current_task_name, runner_built, current_tasks,
                   next_episode, app_closed, ret, log, last_desc, before>>

ConstructOk ==
    /\ phase = "new"
    /\ runtime.task_type_known
    /\ Validate(runtime).msg = NoError
    /\ phase' = "ready"
    /\ robot_name' = Validate(runtime).robot
    /\ runner_built' = TRUE
    /\ UNCHANGED <<runtime, raised, current_task_name, current_tasks,
                   next_episode, app_closed, ret, log, last_desc, before>>

(***************************************************************************)
(* The SimulatorRunner, at its boundary.  It runs the episodes of the      *)
(* configuration one after the other; a reset for a live task either       *)
(* resumes that task or retires it and starts the next episode, and        *)
(* answers None once no episode is left.  The dictionaries it returns are  *)
(* keyed by task name, then by robot name; which tasks and robots it       *)
(* reports is left open.                                                   *)
(***************************************************************************)
NoneRuntime == [none |-> TRUE]          \* None where a TaskRuntime is expected
TaskRuntime(t) == [name |-> t]
TaskName(i) == "task_" \o ToString(i)

SensorData == {"d1", "d2"}
Actions == {"a1", "a2"}
RunnerDt == "dt"

\* What the runner reports for robot r of task t.
Observation(t, r, v) == [task |-> t, robot |-> r, data |-> v]

OtherRobotId(robot) ==
    IF robot = RobotId(JetbotName) THEN RobotId(AliengoName) ELSE RobotId(JetbotName)
ReportedRobotSets(robot) ==
    {{robot}, {OtherRobotId(robot)}, {robot, OtherRobotId(robot)}}

\* The task names a dictionary of the runner is keyed by: the live tasks, with
\* or without the task the caller asked about.
ReportedTaskSets(live, asked) ==
    IF asked = None THEN {live}
    ELSE {live, live \cup {asked}, live \ {asked}}

ObsMaps(live, asked, robot) ==
    {[t \in D |-> [r \in RD |-> Observation(t, r, v)]] :
        D \in ReportedTaskSets(live, asked), RD \in ReportedRobotSets(robot),
        v \in SensorData}

TerminatedMaps(live, asked) ==
    UNION {[D -> BOOLEAN] : D \in ReportedTaskSets(live, asked)}

\* runner.reset(arg): the answers the runner may give and the state it is left in.
RunnerResetResponses(arg, tasks, next, episodes, robot) ==
    LET resume ==
            IF arg \in tasks
            THEN {[obs |-> m, task_runtime |-> TaskRuntime(arg), tasks |-> tasks, next |-> next] :
                    m \in ObsMaps(tasks, arg, robot)}
            ELSE {}
        rest == tasks \ {arg}
        advance ==
            IF next <= Len(episodes)
            THEN {[obs |-> m, task_runtime |-> TaskRuntime(TaskName(next)),
                   tasks |-> rest \cup {TaskName(next)}, next |-> next + 1] :
                    m \in ObsMaps(rest \cup {TaskName(next)}, TaskName(next), robot)}
            ELSE {[obs |-> m, task_runtime |-> NoneRuntime, tasks |-> rest, next |-> next] :
                    m \in ObsMaps(rest, arg, robot)}
    IN resume \cup advance

(***************************************************************************)
(* Env.reset                                                               *)
(***************************************************************************)
\* What a call records of the state it begins in: the Env's fields, the name
\* of the last task_runtime received, and which call came before it (term:
\* that call was a step that returned terminated = True).
Before ==
    [name |-> current_task_name,
     desc |-> last_desc,
     robot |-> robot_name,
     op |-> ret.op,
     term |-> (ret.op = "step" /\ ret.status = "ok" /\ ret.val[3])]

Returned(op, val) == [op |-> op, status |-> "ok", val |-> val]
KeyError(op, key) == [op |-> op, status |-> "KeyError", val |-> <<key>>]

\* Faulty variant: the remembered name is not passed on.
ResetArgNone(cur) == None
\* gym_env.py:70: the argument of runner.reset
ResetArg(cur) == cur

\* Faulty variants: the name is never taken over; the name is cleared when
\* the runner has no task.
ResetNameKept(cur, task_runtime) == cur
ResetNameCleared(cur, task_runtime) ==
    IF task_runtime # NoneRuntime THEN task_runtime.name ELSE None
\* Faulty variant: a task_runtime for the task already remembered clears the name.
ResetNameForgetsSame(cur, task_runtime) ==
    IF task_runtime = NoneRuntime THEN cur
    ELSE IF task_runtime.name = cur THEN None ELSE task_runtime.name
\* gym_env.py:71-72: _current_task_name after the runner has answered task_runtime
ResetName(cur, task_runtime) ==
    IF task_runtime # NoneRuntime THEN task_runtime.name ELSE cur

\* Faulty variant: a missing entry yields an empty observation instead of an error.
ResetBodyLenient(robot, origin_obs, task_runtime) ==
    IF task_runtime # NoneRuntime
    THEN LET name == task_runtime.name IN
         IF name \in DOMAIN origin_obs /\ robot \in DOMAIN origin_obs[name]
         THEN Returned("reset", <<origin_obs[name][robot],
                                  (RESET_INFO_TASK_RUNTIME :> task_runtime)>>)
         ELSE Returned("reset", <<EmptyDict, (RESET_INFO_TASK_RUNTIME :> task_runtime)>>)
    ELSE Returned("reset", <<EmptyDict, EmptyDict>>)
\* gym_env.py:67-76 after the runner has answered (origin_obs, task_runtime):
\* what reset returns or raises.
ResetBody(robot, origin_obs, task_runtime) ==
    IF task_runtime # NoneRuntime
    THEN LET name == task_runtime.name IN
         IF name \notin DOMAIN origin_obs
         THEN KeyError("reset", name)
         ELSE IF robot \notin DOMAIN origin_obs[name]
         THEN KeyError("reset", robot)
         ELSE Returned("reset", <<origin_obs[name][robot],
                                  (RESET_INFO_TASK_RUNTIME :> task_runtime)>>)
    ELSE Returned("reset", <<EmptyDict, EmptyDict>>)

Reset ==
    /\ phase = "ready"
    /\ \E resp \in RunnerResetResponses(ResetArg(current_task_name), current_tasks,
                                        next_episode, runtime.episodes, robot_name) :
        /\ current_task_name' = ResetName(current_task_name, resp.task_runtime)
        /\ ret' = ResetBody(robot_name, resp.obs, resp.task_runtime)
        /\ log' = <<[fn |-> "reset", arg |-> ResetArg(current_task_name),
                     out |-> <<resp.obs, resp.task_runtime>>]>>
        /\ current_tasks' = resp.tasks
        /\ next_episode' = resp.next
        /\ last_desc' = IF resp.task_runtime # NoneRuntime
                        THEN resp.task_runtime.name ELSE last_desc
    /\ before' = Before
    /\ UNCHANGED <<runtime, phase, raised, robot_name, runner_built, app_closed>>

(***************************************************************************)
(* Env.step                                                                *)
(***************************************************************************)
\* Faulty variant: the action map is keyed by robot first.
StepActionsSwapped(cur, robot, action) == (robot :> (cur :> action))
\* gym_env.py:108
StepActions(cur, robot, action) == (cur :> (robot :> action))

\* gym_env.py:99-106: the return without an active task
StepDefault == Returned("step", <<EmptyDict, 0, TRUE, FALSE, EmptyDict>>)

\* Faulty variant: a terminated task earns a reward.
StepBodyRewarding(cur, robot, origin_obs, terminated_status) ==
    IF cur \notin DOMAIN origin_obs
    THEN KeyError("step", cur)
    ELSE IF robot \notin DOMAIN origin_obs[cur]
    THEN KeyError("step", robot)
    ELSE IF cur \notin DOMAIN terminated_status
    THEN KeyError("step", cur)
    ELSE Returned("step", <<origin_obs[cur][robot],
                            IF terminated_status[cur] THEN 1 ELSE 0,
                            terminated_status[cur], FALSE, EmptyDict>>)
\* gym_env.py:111-114 after the runner has answered (origin_obs, terminated_status)
StepBody(cur, robot, origin_obs, terminated_status) ==
    IF cur \notin DOMAIN origin_obs
    THEN KeyError("step", cur)
    ELSE IF robot \notin DOMAIN origin_obs[cur]
    THEN KeyError("step", robot)
    ELSE IF cur \notin DOMAIN terminated_status
    THEN KeyError("step", cur)
    ELSE Returned("step", <<origin_obs[cur][robot], 0, terminated_status[cur], FALSE, EmptyDict>>)

\* Faulty variant: the name is cleared when the task reports terminated.
StepNameCleared(cur, terminated_status) ==
    IF cur \in DOMAIN terminated_status /\ terminated_status[cur] THEN None ELSE cur
\* gym_env.py:99-114: step has no assignment to _current_task_name
StepName(cur, terminated_status) == cur

\* Faulty variants: the test for an active task is missing; it always succeeds.
NoActiveTaskNever(cur) == FALSE
NoActiveTaskAlways(cur) == TRUE
\* gym_env.py:105
NoActiveTask(cur) == cur = None

StepIdle ==
    /\ phase = "ready"
    /\ NoActiveTask(current_task_name)
    /\ \E action \in Actions :
        /\ ret' = StepDefault
        /\ log' = << >>
    /\ before' = Before
    /\ UNCHANGED <<runtime, phase, raised, robot_name, current_task_name, runner_built,
                   current_tasks, next_episode, app_closed, last_desc>>

StepRun ==
    /\ phase = "ready"
    /\ ~NoActiveTask(current_task_name)
    /\ \E action \in Actions :
       \E origin_obs \in ObsMaps(current_tasks, current_task_name, robot_name) :
       \E terminated_status \in TerminatedMaps(current_tasks, current_task_name) :
        /\ ret' = StepBody(current_task_name, robot_name, origin_obs, terminated_status)
        /\ log' = <<[fn |-> "step",
                     arg |-> StepActions(current_task_name, robot_name, action),
                     out |-> <<origin_obs, terminated_status>>]>>
        /\ current_task_name' = StepName(current_task_name, terminated_status)
    /\ before' = Before
    /\ UNCHANGED <<runtime, phase, raised, robot_name, runner_built,
                   current_tasks, next_episode, app_closed, last_desc>>

(***************************************************************************)
(* Env.get_observations, get_dt, finished, close                           *)
(***************************************************************************)
\* Faulty variant: the runner's answer is dropped.
GetObsBodyEmpty(cur, robot, obs) == Returned("get_observations", <<EmptyDict>>)
\* gym_env.py:146-147 after the runner has answered _obs
GetObsBody(cur, robot, obs) ==
    IF cur \notin DOMAIN obs
    THEN KeyError("get_observations", cur)
    ELSE IF robot \notin DOMAIN obs[cur]
    THEN KeyError("get_observations", robot)
    ELSE Returned("get_observations", <<obs[cur][robot]>>)

GetObservationsIdle ==
    /\ phase = "ready"
    /\ NoActiveTask(current_task_name)
    /\ ret' = Returned("get_observations", <<EmptyDict>>)
    /\ log' = << >>
    /\ before' = Before
    /\ UNCHANGED <<runtime, phase, raised, robot_name, current_task_name, runner_built,
                   current_tasks, next_episode, app_closed, last_desc>>

GetObservationsRun ==
    /\ phase = "ready"
    /\ ~NoActiveTask(current_task_name)
    /\ \E obs \in ObsMaps(current_tasks, current_task_name, robot_name) :
        /\ ret' = GetObsBody(current_task_name, robot_name, obs)
        /\ log' = <<[fn |-> "get_obs", arg |-> << >>, out |-> <<obs>>]>>
    /\ before' = Before
    /\ UNCHANGED <<runtime, phase, raised, robot_name, current_task_name, runner_built,
                   current_tasks, next_episode, app_closed, last_desc>>

GetDt ==
    /\ phase = "ready"
    /\ ret' = Returned("get_dt", <<RunnerDt>>)
    /\ log' = <<[fn |-> "dt", arg |-> << >>, out |-> <<RunnerDt>>]>>
    /\ before' = Before
    /\ UNCHANGED <<runtime, phase, raised, robot_name, current_task_name, runner_built,
                   current_tasks, next_episode, app_closed, last_desc>>

\* Faulty variant: the comparison is inverted.
FinishedValueInverted(tasks) == Cardinality(tasks) # 0
\* gym_env.py:169
FinishedValue(tasks) == Cardinality(tasks) = 0

Finished ==
    /\ phase = "ready"
    /\ ret' = Returned("finished", <<FinishedValue(current_tasks)>>)
    /\ log' = <<[fn |-> "current_tasks", arg |-> << >>, out |-> <<current_tasks>>]>>
    /\ before' = Before
    /\ UNCHANGED <<runtime, phase, raised, robot_name, current_task_name, runner_built,
                   current_tasks, next_episode, app_closed, last_desc>>

Close ==
    /\ phase = "ready"
    /\ app_closed' = TRUE
    /\ ret' = Returned("close", << >>)
    /\ log' = << >>
    /\ before' = Before
    /\ UNCHANGED <<runtime, phase, raised, robot_name, current_task_name, runner_built,
                   current_tasks, next_episode, last_desc>>

Next ==
    \/ ConstructSpaceFails
    \/ ConstructInvalid
    \/ ConstructOk
    \/ Reset
    \/ StepIdle
    \/ StepRun
    \/ GetObservationsIdle
    \/ GetObservationsRun
    \/ GetDt
    \/ Finished
    \/ Close

Spec == Init /\ [][Next]_vars

(***************************************************************************)
(* A caller that runs the episodes to the end: reset, then step until      *)
(* terminated is True, and again, until reset returns no task; then it     *)
(* asks finished().  The runner answers with dictionaries that hold the    *)
(* entries asked for, starts the next episode when a terminated task is    *)
(* reset, and every task reports terminated at some step.                  *)
(***************************************************************************)
LastStepTerminated == ret.op = "step" /\ ret.status = "ok" /\ ret.val[3]
LastStepRunning == ret.op = "step" /\ ret.status = "ok" /\ ~ret.val[3]
LastResetGaveTask == ret.op = "reset" /\ ret.status = "ok" /\ ret.val[2] # EmptyDict
LastResetGaveNone == ret.op = "reset" /\ ret.status = "ok" /\ ret.val[2] = EmptyDict

LoopReset ==
    /\ ret.op = "none" \/ LastStepTerminated
    /\ Reset
    /\ ret'.status = "ok"
    /\ log'[1].out[2] # TaskRuntime(current_task_name)

LoopStep ==
    /\ LastResetGaveTask \/ LastStepRunning
    /\ StepRun
    /\ ret'.status = "ok"

LoopStepTerminated ==
    /\ LoopStep
    /\ ret'.val[3]

LoopFinished ==
    /\ LastResetGaveNone
    /\ Finished

NextLoop ==
    \/ ConstructSpaceFails
    \/ ConstructInvalid
    \/ ConstructOk
    \/ LoopReset
    \/ LoopStep
    \/ LoopFinished

SpecLoop ==
    /\ Init
    /\ [][NextLoop]_vars
    /\ WF_vars(ConstructOk)
    /\ WF_vars(LoopReset)
    /\ WF_vars(LoopStepTerminated)
    /\ WF_vars(LoopFinished)

(***************************************************************************)
(* Properties.                                                             *)
(***************************************************************************)
Ready == phase = "ready"
LastCall(op) == Ready /\ ret.op = op

\* C1: _current_task_name is None or the name of a task live in the runner,
\* and it is None whenever the runner has no live task.
C1_ActiveTaskIsLive ==
    (Ready /\ runtime.env_num = 1) =>
        /\ current_task_name = None \/ current_task_name \in current_tasks
        /\ current_tasks = {} => current_task_name = None

\* C2: a step made while _current_task_name is None (so in particular before
\* any reset received a task_runtime) returns ({}, 0.0, True, False, {}) and
\* makes no call on the runner.
C2_StepWithoutTask ==
    (LastCall("step") /\ (before.name = None \/ before.desc = None)) =>
        /\ ret.status = "ok"
        /\ ret.val = <<EmptyDict, 0, TRUE, FALSE, EmptyDict>>
        /\ log = << >>

C2_Witness ==
    /\ LastCall("step")
    /\ before.name = None
    /\ Len(runtime.episodes) > 0

\* C3: a step made while _current_task_name is T calls runner.step exactly
\* once, with {T: {_robot_name: a}} for the action a given, and, the answer
\* holding the entries, returns its observations[T][_robot_name] and its
\* terminated[T], with reward 0.0, truncated False and an empty info.
C3_StepForwards ==
    (LastCall("step") /\ before.name # None) =>
        /\ Len(log) = 1
        /\ log[1].fn = "step"
        /\ \E a \in Actions :
                /\ DOMAIN log[1].arg = {before.name}
                /\ DOMAIN log[1].arg[before.name] = {robot_name}
                /\ log[1].arg[before.name][robot_name] = a
        /\ LET obs == log[1].out[1]
               term == log[1].out[2]
               T == before.name
           IN  IF /\ T \in DOMAIN obs
                  /\ robot_name \in DOMAIN obs[T]
                  /\ T \in DOMAIN term
               THEN /\ ret.status = "ok"
                    /\ ret.val = <<obs[T][robot_name], 0, term[T], FALSE, EmptyDict>>
               ELSE ret.status = "KeyError"

C3_Witness ==
    /\ LastCall("step")
    /\ before.name # None
    /\ ret.status = "ok"
    /\ ret.val[3] = TRUE
    /\ Cardinality(DOMAIN log[1].out[1]) > 0
    /\ Cardinality(DOMAIN log[1].out[1][before.name]) > 1

\* C4: when runner.reset answers a task_runtime named T and observations
\* holding T -> _robot_name -> obsX, reset returns (obsX, {'task_runtime':
\* task_runtime}) and leaves _current_task_name = T, whatever it was before.
C4_ResetWithTask ==
    (LastCall("reset") /\ log[1].out[2] # NoneRuntime) =>
        LET obs == log[1].out[1]
            task_runtime == log[1].out[2]
            T == task_runtime.name
        IN  (T \in DOMAIN obs /\ robot_name \in DOMAIN obs[T]) =>
                /\ ret.status = "ok"
                /\ ret.val = <<obs[T][robot_name], [task_runtime |-> task_runtime]>>
                /\ current_task_name = T

C4_Witness ==
    /\ LastCall("reset")
    /\ ret.status = "ok"
    /\ log[1].out[2] # NoneRuntime
    /\ before.name # None
    /\ before.name # current_task_name

\* C5: when runner.reset answers None for the task_runtime, reset returns
\* ({}, {}) whatever observations came with it, and _current_task_name keeps
\* the value it had before the call.
C5_ResetWithoutTask ==
    (LastCall("reset") /\ log[1].out[2] = NoneRuntime) =>
        /\ ret.status = "ok"
        /\ ret.val = <<EmptyDict, EmptyDict>>
        /\ current_task_name = before.name

C5_Witness ==
    /\ LastCall("reset")
    /\ log[1].out[2] = NoneRuntime
    /\ DOMAIN log[1].out[1] # {}
    /\ before.name # None

\* C6: every reset calls runner.reset exactly once, with the name of the last
\* task_runtime the runner returned so far, None while there has been none.
C6_ResetArgument ==
    LastCall("reset") =>
        /\ Len(log) = 1
        /\ log[1].fn = "reset"
        /\ log[1].arg = before.desc

C6_Witness ==
    /\ LastCall("reset")
    /\ before.desc # None
    /\ last_desc # before.desc

Constructed == phase # "new" /\ runtime.task_type_known
Episodes == runtime.episodes
SingleRobot(i) == Len(Episodes[i]) = 1
FirstOffender == CHOOSE i \in DOMAIN Episodes :
                    ~SingleRobot(i) /\ \A j \in 1..(i - 1) : SingleRobot(j)

\* C7: construction against a runtime with env_num # 1, zero and negative
\* counts included, fails with the single-env error naming the count (stated
\* here for the configurations whose episodes all list the same single robot).
C7_EnvNumMustBeOne ==
    (/\ Constructed
     /\ runtime.env_num # 1
     /\ Len(Episodes) > 0
     /\ \A i \in DOMAIN Episodes : Episodes[i] = <<Episodes[1][1]>>) =>
        /\ phase = "failed"
        /\ raised = "Only support single env now, but env num is "
                        \o ToString(runtime.env_num)

\* C8 as stated: with env_num = 1, a configuration in which some episode lists
\* a number of robots other than 1 fails with the single-agent error naming
\* such an episode's robot count.
C8_MultiAgentError ==
    (Constructed /\ runtime.env_num = 1 /\ \E i \in DOMAIN Episodes : ~SingleRobot(i)) =>
        /\ phase = "failed"
        /\ \E i \in DOMAIN Episodes :
            /\ ~SingleRobot(i)
            /\ raised = "Only support single agent now, but episode requires "
                            \o ToString(Len(Episodes[i])) \o " agents"

\* C8 amended: with env_num = 1, a configuration in which some episode lists
\* a number of robots other than 1 fails: with the single-agent error naming
\* the robot count of the first such episode, unless two episodes before it
\* differ in robot name, and then with the error for differing robots.
C8_FirstOffenceWins ==
    (Constructed /\ runtime.env_num = 1 /\ \E i \in DOMAIN Episodes : ~SingleRobot(i)) =>
        /\ phase = "failed"
        /\ raised =
             IF \E j, k \in 1..(FirstOffender - 1) : Episodes[j][1] # Episodes[k][1]
             THEN "Only support single agent now, but episode requires multiple agents"
             ELSE "Only support single agent now, but episode requires "
                     \o ToString(Len(Episodes[FirstOffender])) \o " agents"

C8_Witness ==
    /\ Constructed
    /\ runtime.env_num = 1
    /\ phase = "failed"
    /\ Len(Episodes) = 3
    /\ SingleRobot(1) /\ SingleRobot(2) /\ Len(Episodes[3]) = 2
    /\ Episodes[1][1] # Episodes[2][1]
    /\ raised = HeteroMsg

\* C9: with env_num = 1, a configuration whose episodes have one robot each
\* but not all the same robot name fails with the error for differing robots,
\* wherever the differing name stands.
C9_HeterogeneousError ==
    (/\ Constructed
     /\ runtime.env_num = 1
     /\ \A i \in DOMAIN Episodes : SingleRobot(i)
     /\ \E i, j \in DOMAIN Episodes : Episodes[i][1] # Episodes[j][1]) =>
        /\ phase = "failed"
        /\ raised = "Only support single agent now, but episode requires multiple agents"

C9_Witness ==
    /\ Constructed
    /\ runtime.env_num = 1
    /\ phase = "failed"
    /\ Len(Episodes) = 3
    /\ \A i \in DOMAIN Episodes : SingleRobot(i)
    /\ Episodes[1][1] = Episodes[2][1]
    /\ Episodes[3][1] # Episodes[1][1]

\* C10: after a construction that passed the checks, _robot_name is the robot
\* name the episodes share followed by "_0", and no later reset, step,
\* get_observations, get_dt, finished or close changes it.
C10_RobotIdDerived ==
    (Ready /\ Len(Episodes) > 0) =>
        /\ \A i \in DOMAIN Episodes : Episodes[i] = <<Episodes[1][1]>>
        /\ robot_name = Episodes[1][1] \o "_0"

C10_RobotId ==
    /\ []C10_RobotIdDerived
    /\ [][Ready => robot_name' = robot_name]_vars

C10_Witness ==
    /\ LastCall("step")
    /\ ret.status = "ok"
    /\ app_closed
    /\ Len(Episodes) > 1
    /\ current_task_name = "task_2"
    /\ robot_name = "aliengo_0"

\* C11: finished() returns True exactly when the runner has no live task,
\* whatever _current_task_name is.
C11_FinishedIffNoLiveTask ==
    LastCall("finished") =>
        /\ ret.status = "ok"
        /\ ret.val = <<(current_tasks = {})>>

C11_Witness ==
    /\ LastCall("finished")
    /\ ret.val = <<TRUE>>
    /\ current_task_name # None

\* C12: a reset that directly follows a reset, made while the name T is
\* remembered and answered by the runner with a task_runtime named T again,
\* leaves _current_task_name = T, the value it had after the first reset.
C12_ResetTwice ==
    (/\ LastCall("reset")
     /\ before.op = "reset"
     /\ before.name # None
     /\ log[1].out[2] = [name |-> before.name]) =>
        current_task_name = before.name

C12_Witness ==
    /\ LastCall("reset")
    /\ before.op = "reset"
    /\ before.name # None
    /\ log[1].arg = before.name
    /\ log[1].out[2] = [name |-> before.name]
    /\ ret.status = "ok"

LoopDone == LastCall("finished") /\ ret.val = <<TRUE>>

\* The part of C13 about the end of the run: the caller that repeats reset
\* and step until terminated reaches finished() = True.
C13_EventuallyFinished == Ready ~> LoopDone

\* C13: the caller that repeats reset and step until terminated reaches a
\* state where the runner has no live task and finished() is True, and
\* _current_task_name cycles between None and a task name over the run: it is
\* None again when the run is over.
C13_NameNoneWhenDone == LoopDone => current_task_name = None

C13_EpisodeLoop ==
    /\ C13_EventuallyFinished
    /\ []C13_NameNoneWhenDone

\* C14: the state in which the runner has no live task (finished() is True)
\* while _current_task_name still holds a name is reachable, by a reset the
\* exhausted runner answers with None; a step made in that state is not cut
\* short: it calls runner.step with {staleName: {_robot_name: a}}.
C14_StepOnStaleName ==
    (LastCall("step") /\ current_tasks = {} /\ before.name # None) =>
        /\ Len(log) = 1
        /\ log[1].fn = "step"
        /\ \E a \in Actions : log[1].arg = (before.name :> (robot_name :> a))

C14_Witness ==
    /\ LastCall("step")
    /\ before.op = "reset"
    /\ current_tasks = {}
    /\ FinishedValue(current_tasks)
    /\ next_episode > Len(Episodes)
    /\ current_task_name # None
    /\ Len(log) = 1

\* C15: step never changes _current_task_name, whatever the runner answers,
\* an answer that reports the task terminated included; a step that follows
\* such a step without a reset is forwarded to the runner for the same name.
C15_StepKeepsName ==
    LastCall("step") =>
        /\ current_task_name = before.name
        /\ (before.term /\ before.name # None) =>
                /\ Len(log) = 1
                /\ log[1].fn = "step"
                /\ DOMAIN log[1].arg = {before.name}

C15_Witness ==
    /\ LastCall("step")
    /\ before.term
    /\ ret.status = "ok"
    /\ ret.val[3]
    /\ current_task_name # None

HasEntry(obs, t, r) == t \in DOMAIN obs /\ r \in DOMAIN obs[t]

\* C16: get_observations, get_dt and finished leave _current_task_name and
\* _robot_name as they were and call neither runner.reset nor runner.step;
\* get_observations returns {} without a call on the runner when the name is
\* None, and otherwise the runner's get_obs()[name][_robot_name].
C16_QueriesReadOnly ==
    (Ready /\ ret.op \in {"get_observations", "get_dt", "finished"}) =>
        /\ current_task_name = before.name
        /\ robot_name = before.robot
        /\ \A i \in DOMAIN log : log[i].fn \notin {"reset", "step"}
        /\ ret.op = "get_observations" =>
              IF before.name = None
              THEN /\ log = << >>
                   /\ ret.status = "ok"
                   /\ ret.val = <<EmptyDict>>
              ELSE /\ Len(log) = 1
                   /\ log[1].fn = "get_obs"
                   /\ IF HasEntry(log[1].out[1], before.name, robot_name)
                      THEN /\ ret.status = "ok"
                           /\ ret.val = <<log[1].out[1][before.name][robot_name]>>
                      ELSE ret.status = "KeyError"

C16_Witness ==
    /\ LastCall("get_observations")
    /\ before.name # None
    /\ ret.status = "ok"
    /\ Cardinality(DOMAIN log[1].out[1][before.name]) > 1

\* C17: whatever step returns, in every state and for every answer of the
\* runner, the reward is 0.0, truncated is False and info is empty.
C17_StepFixedFields ==
    (LastCall("step") /\ ret.status = "ok") =>
        /\ Len(ret.val) = 5
        /\ ret.val[2] = 0
        /\ ret.val[4] = FALSE
        /\ ret.val[5] = EmptyDict

C17_Witness ==
    /\ LastCall("step")
    /\ ret.status = "ok"
    /\ before.name # None
    /\ ret.val[3]
    /\ ret.val[1] # EmptyDict

\* C18: the runner is created only after the checks of __init__ have passed:
\* when construction fails no runner exists and no runner operation was called.
C18_RunnerAfterValidation ==
    /\ phase = "failed" =>
            /\ ~runner_built
            /\ log = << >>
            /\ current_tasks = {}
            /\ next_episode = 1
    /\ runner_built => Ready

C18_Witness ==
    /\ phase = "failed"
    /\ runtime.env_num = 1
    /\ raised = HeteroMsg
    /\ ~runner_built

\* C19: once the runner has returned a task_runtime, _current_task_name is
\* never None again: every later step calls runner.step and every later
\* get_observations calls runner.get_obs.
C19_NameNeverClearedAgain ==
    Ready =>
        /\ last_desc # None => current_task_name # None
        /\ (before.desc # None /\ ret.op \in {"step", "get_observations"}) =>
                /\ before.name # None
                /\ Len(log) = 1
                /\ log[1].fn = (IF ret.op = "step" THEN "step" ELSE "get_obs")

C19_Witness ==
    /\ LastCall("get_observations")
    /\ before.desc # None
    /\ before.term
    /\ current_tasks = {}
    /\ Len(log) = 1

\* C20: when the runner's answer lacks the task or robot entry, reset, step
\* and get_observations raise the lookup error; reset has by then taken over
\* the name of the new task_runtime, step and get_observations leave the name
\* as it was.
C20_LookupFailures ==
    /\ (/\ LastCall("reset")
        /\ log[1].out[2] # NoneRuntime
        /\ ~HasEntry(log[1].out[1], log[1].out[2].name, robot_name)) =>
            /\ ret.status = "KeyError"
            /\ current_task_name = log[1].out[2].name
    /\ (/\ LastCall("step")
        /\ before.name # None
        /\ \/ ~HasEntry(log[1].out[1], before.name, robot_name)
           \/ before.name \notin DOMAIN log[1].out[2]) =>
            /\ ret.status = "KeyError"
            /\ current_task_name = before.name
    /\ (/\ LastCall("get_observations")
        /\ before.name # None
        /\ ~HasEntry(log[1].out[1], before.name, robot_name)) =>
            /\ ret.status = "KeyError"
            /\ current_task_name = before.name

C20_Witness ==
    /\ LastCall("reset")
    /\ ret.status = "KeyError"
    /\ before.name # None
    /\ current_task_name # before.name
====
